---- MODULE Spec2Model ----
(***************************************************************************)
(* The timed sampling scheduler of src/src/testing/data_collector.py:      *)
(* DataCollector.collect_measurements (the consumer), the thread it starts *)
(* on DataCollector._sampling_worker (the producer), DataCollector.stop,   *)
(* and the measurement source behind DataCollector._get_measurement.       *)
(*                                                                         *)
(* Time is a discrete monotonic clock `now`, one unit = one second         *)
(* (time.perf_counter).  Frequencies are in millihertz, so that            *)
(* interval = 1.0 / sampling_frequency_hz is a whole number of seconds.    *)
(* Time passes while every thread is blocked (an acquisition in progress,  *)
(* Event.wait, Queue.get, Thread.join); while a thread is runnable it may  *)
(* pass too, as scheduling delay, at most MaxJitter seconds in all.        *)
(* Spec is one call on a fresh DataCollector; ReuseSpec adds a second call *)
(* on the same object, which can meet the thread the first call left.      *)
(* ConfigSpec is resolve_sampling_config followed by the construction of   *)
(* a DataCollector; ClientSpec is one request_current_from_ammeter over    *)
(* the responses a socket can give; ArchiveSpec is the ResultManager of    *)
(* one AmmeterTestFramework, with run_test, save and delete.               *)
(***************************************************************************)
EXTENDS Integers, Sequences, FiniteSets, TLC

\* ------------------------------------------------------------------ bounds
MaxCount == 3
MaxDuration == 5
MaxLatency == 4
MaxJitter == 1

\* sampling_frequency_hz values tried, in millihertz: 1 Hz and 0.5 Hz
Frequencies == {500, 1000}

Min(a, b) == IF a <= b THEN a ELSE b

\* ------------------------------------------------------ SamplingConfig
\* self.interval = 1.0 / sampling_frequency_hz  (frequency in millihertz)
Interval(sampling_frequency_hz) == 1000 \div sampling_frequency_hz

\* SamplingConfig._validate_parameters: TRUE iff no ValueError is raised
ValidateParameters(measurements_count, total_duration_seconds, sampling_frequency_hz) ==
    /\ measurements_count > 0
    /\ total_duration_seconds > 0
    /\ sampling_frequency_hz > 0
    /\ ~ ((measurements_count - 1) * Interval(sampling_frequency_hz) > total_duration_seconds)

\* SamplingConfig.__init__: the configurations a DataCollector can hold
SamplingConfigs ==
    { [measurements_count |-> c, total_duration_seconds |-> d,
       sampling_frequency_hz |-> f, interval |-> Interval(f)] :
        <<c, d, f>> \in { t \in (1..MaxCount) \X (1..MaxDuration) \X Frequencies :
                            ValidateParameters(t[1], t[2], t[3]) } }

\* ------------------------------------------------- configuration values
\* A value of the sampling section as yaml.safe_load gives it: absent ("None"),
\* an int, a bool, a str, or a float, which is a rational n/d in lowest terms,
\* nan or inf.  Floating-point rounding (relative error 2^-53) is left out:
\* for the values tried every comparison comes out as in double arithmetic.
RECURSIVE GCD(_, _)
GCD(a, b) == IF b = 0 THEN a ELSE GCD(b, a % b)

Abs(x) == IF x < 0 THEN -x ELSE x

\* the value n/d of the given kind, in lowest terms
Num(kind, n, d) ==
    LET g == IF n = 0 THEN d ELSE GCD(Abs(n), d)
    IN [kind |-> kind, n |-> n \div g, d |-> d \div g]

None == [kind |-> "None", n |-> 0, d |-> 1]
NaN == [kind |-> "nan", n |-> 0, d |-> 1]
Inf == [kind |-> "inf", n |-> 0, d |-> 1]
Str == [kind |-> "str", n |-> 0, d |-> 1]
PyTrue == [kind |-> "bool", n |-> 1, d |-> 1]
PyInt(n) == [kind |-> "int", n |-> n, d |-> 1]
PyFloat(n, d) == Num("float", n, d)

\* isinstance(v, int): bool is a subclass of int
IsInt(v) == v.kind \in {"int", "bool"}
\* isinstance(v, (int, float))
IsNumber(v) == v.kind \in {"int", "bool", "float", "nan", "inf"}
Finite(v) == v.kind \in {"int", "bool", "float"}

\* v <= 0: every comparison with nan is False
LeqZero(v) == Finite(v) /\ v.n <= 0

\* float(v) and int(v) of a number
ToFloat(v) == IF Finite(v) THEN Num("float", v.n, v.d) ELSE v
ToInt(v) == [kind |-> "int", n |-> v.n \div v.d, d |-> 1]

\* a * b of non-negative floats
FMul(a, b) ==
    IF a.kind = "nan" \/ b.kind = "nan" THEN NaN
    ELSE IF a.kind = "inf" \/ b.kind = "inf"
    THEN IF (Finite(a) /\ a.n = 0) \/ (Finite(b) /\ b.n = 0) THEN NaN ELSE Inf
    ELSE Num("float", a.n * b.n, a.d * b.d)

\* a / b of non-negative numbers, b not zero
FDiv(a, b) ==
    IF a.kind = "nan" \/ b.kind = "nan" THEN NaN
    ELSE IF b.kind = "inf" THEN (IF a.kind = "inf" THEN NaN ELSE Num("float", 0, 1))
    ELSE IF a.kind = "inf" THEN Inf
    ELSE Num("float", a.n * b.d, a.d * b.n)

\* abs(a - b) of non-negative numbers
AbsDiff(a, b) ==
    IF a.kind = "nan" \/ b.kind = "nan" THEN NaN
    ELSE IF a.kind = "inf" /\ b.kind = "inf" THEN NaN
    ELSE IF a.kind = "inf" \/ b.kind = "inf" THEN Inf
    ELSE Num("float", Abs(a.n * b.d - b.n * a.d), a.d * b.d)

\* a > b: False when either is nan
FGt(a, b) ==
    IF a.kind = "nan" \/ b.kind = "nan" THEN FALSE
    ELSE IF a.kind = "inf" THEN b.kind # "inf"
    ELSE IF b.kind = "inf" THEN FALSE
    ELSE a.n * b.d > b.n * a.d

\* a < b
FLt(a, b) == FGt(b, a)

\* round(x) of a finite non-negative float: to the nearest integer, ties to even
Round(x) ==
    LET fl == x.n \div x.d
        twice == 2 * (x.n % x.d)
    IN IF twice < x.d THEN fl
       ELSE IF twice > x.d THEN fl + 1
       ELSE IF fl % 2 = 0 THEN fl ELSE fl + 1

\* ------------------------------------------------------ measurement source
\* config["ammeters"]: the configured devices; each has a port
Ammeters == {"greenlee", "entes", "circutor"}

\* the ammeter_type arguments tried: a configured one and an unknown one
AmmeterArgs == {"greenlee", "invalid_type"}

\* self.config["ammeters"].get(ammeter_type, {}).get("port")
Port(ammeter_type) == IF ammeter_type \in Ammeters THEN "port" ELSE "None"

\* What the device behind a port does: it answers every request with a number
\* ("reliable"), never with one ("null": refused, timed out, unparsable), or
\* with bytes that are no UTF-8 text ("garbled"), after one of the latencies
\* `lats`, in seconds.  The devices tried have a
\* constant latency, or answer each request either at once or after MaxLatency.
Sources ==
    [mode : {"reliable", "null", "garbled"},
     lats : { {d} : d \in 0..MaxLatency } \cup { {0, MaxLatency} }]

\* the longest time one acquisition from the device takes
Slowest(src) == CHOOSE m \in src.lats : \A l \in src.lats : l <= m

\* no device: nothing listens for an ammeter type the configuration lacks
NoDevice == [mode |-> "null", lats |-> {0}]

\* the devices a call for ammeter_type can meet
DevicesAt(ammeter_type) == IF Port(ammeter_type) = "None" THEN {NoDevice} ELSE Sources

\* DataCollector._get_measurement: the set of <<value, latency>> a call can give
GetMeasurement(ammeter_type, src) ==
    IF Port(ammeter_type) = "None"
    THEN { <<"None", 0>> }
    ELSE { <<v, l>> : v \in (CASE src.mode = "reliable" -> {"float"}
                                [] src.mode = "null" -> {"None"}
                                [] src.mode = "garbled" -> {"UnicodeDecodeError"}),
                      l \in src.lats }

\* ------------------------------------------------------------------ state
VARIABLES
    now,                \* the monotonic clock
    jitter,             \* scheduling delay spent so far
    sampling_config,    \* self.sampling_config
    source,             \* the device the call addresses
    measurement_queue,  \* self.measurement_queue
    stop_event,         \* self._stop_event
    sla_exceeded,       \* self._sla_exceeded
    cpc,                \* the position of the caller in collect_measurements
    ammeter_type,       \* collect_measurements' argument
    test_start_time,
    ci,                 \* the consumer loop's i
    get_deadline,       \* when the pending Queue.get times out
    measurements,
    elapsed_time,
    join_deadline,      \* when the pending Thread.join times out
    result,             \* the CollectionResult returned
    ppc,                \* the position of the thread in _sampling_worker
    absolute_start,
    pi,                 \* the producer loop's i
    pending,            \* the sample being acquired
    acq_end,            \* when the pending acquisition returns
    wait_deadline,      \* when the pending Event.wait times out
    stop_time,          \* history: when stop() was called, -1 if never
    produced,           \* history: the samples put into the queue, in order, each
                        \* with the time of the put, whether stop() came before,
                        \* and the call whose thread put it
    calls,              \* how many times collect_measurements has been called
    opc,                \* the thread of the previous call, if it outlived it:
    oabsolute_start,    \*   its position in _sampling_worker and its locals
    oi,
    opending,
    oacq_end,
    owait_deadline,
    sampling,           \* config['testing']['sampling']
    given,              \* history: the sampling section as it was loaded
    rpc,                \* what resolve_sampling_config last did with it
    resolve_calls,      \* how many times resolve_sampling_config was called
    raised,             \* the exception its last call raised, "None" if none
    collector,          \* DataCollector(config): not tried, constructed or raised
    collector_config,   \* the SamplingConfig of the constructed DataCollector
    wire,               \* what the socket of one request meets
    reply,              \* what request_current_from_ammeter does with it
    test_id,            \* AmmeterTestFramework.test_id
    index,              \* ResultManager._index, in the order of the dict
    files,              \* the result files under save_path
    returned,           \* the last call that changed the archive, and its value
    runs,               \* the results the calls of run_test built, in order
    last_saved          \* per test id, the results last saved and not deleted

vars == << now, jitter, sampling_config, source, measurement_queue, stop_event,
           sla_exceeded, cpc, ammeter_type, test_start_time, ci, get_deadline,
           measurements, elapsed_time, join_deadline, result, ppc,
           absolute_start, pi, pending, acq_end, wait_deadline, stop_time,
           produced, calls, opc, oabsolute_start, oi, opending, oacq_end,
           owait_deadline, sampling, given, rpc, resolve_calls, raised,
           collector, collector_config, wire, reply,
           test_id, index, files, returned, runs, last_saved >>

clientVars == << wire, reply >>
managerVars == << test_id, index, files, returned, runs, last_saved >>
resolverVars == << sampling, given, rpc, resolve_calls, raised >>
constructVars == << collector, collector_config >>

oldWorkerVars == << opc, oabsolute_start, oi, opending, oacq_end, owait_deadline >>
\* what the steps of a first call leave alone
laterVars == << calls, oldWorkerVars, resolverVars, constructVars, clientVars,
               managerVars >>

consumerVars == << cpc, ammeter_type, test_start_time, ci, get_deadline,
                   measurements, elapsed_time, join_deadline, result >>
workerVars == << ppc, absolute_start, pi, pending, acq_end, wait_deadline >>
configVars == << sampling_config, source >>

NoResult == [success |-> FALSE, reason |-> "none", elapsed_time |-> 0,
             expected_count |-> 0, actual_count |-> 0]
NoSample == [timestamp |-> 0, relative_time |-> 0, value |-> "None", index |-> 0]

\* no collection has been started on the DataCollector
CollectorIdle ==
    /\ now = 0
    /\ jitter = 0
    /\ source = NoDevice
    /\ measurement_queue = << >>
    /\ stop_event = FALSE
    /\ sla_exceeded = FALSE
    /\ cpc = "idle"
    /\ ammeter_type = "greenlee"
    /\ test_start_time = 0
    /\ ci = 0
    /\ get_deadline = 0
    /\ measurements = << >>
    /\ elapsed_time = 0
    /\ join_deadline = 0
    /\ result = NoResult
    /\ ppc = "none"
    /\ absolute_start = 0
    /\ pi = 0
    /\ pending = NoSample
    /\ acq_end = 0
    /\ wait_deadline = 0
    /\ stop_time = -1
    /\ produced = << >>
    /\ calls = 0
    /\ opc = "none"
    /\ oabsolute_start = 0
    /\ oi = 0
    /\ opending = NoSample
    /\ oacq_end = 0
    /\ owait_deadline = 0

NoPlan == [measurements_count |-> None, sampling_frequency_hz |-> None,
           total_duration_seconds |-> None]
NoConfig == [measurements_count |-> None, total_duration_seconds |-> None,
             sampling_frequency_hz |-> None, interval |-> None,
             minimum_time_required |-> None]

\* no configuration file is being loaded
ResolverIdle ==
    /\ sampling = NoPlan
    /\ given = NoPlan
    /\ rpc = "none"
    /\ resolve_calls = 0
    /\ raised = "None"
    /\ collector = "none"
    /\ collector_config = NoConfig

NoWire == [outcome |-> "none", data |-> << >>]
NoReply == [kind |-> "pending", value |-> None]

\* no single request is being looked at
ClientIdle == wire = NoWire /\ reply = NoReply

\* the test ids and result files tried
TestIds == {"id1", "id2"}
\* a file is << >> when absent, else the one document it holds
NoFile == << >>
NoReturn == [op |-> "none", arg |-> "none", value |-> FALSE]

\* no framework and no archive are being looked at
ManagerIdle ==
    /\ test_id = "none"
    /\ index = << >>
    /\ files = << >>
    /\ returned = NoReturn
    /\ runs = << >>
    /\ last_saved = << >>

\* DataCollector.__init__: the state after construction
Init ==
    /\ sampling_config \in SamplingConfigs
    /\ CollectorIdle
    /\ ResolverIdle
    /\ ClientIdle
    /\ ManagerIdle

\* ------------------------------------------------- collect_measurements
\* (mutant) the receive timeout not capped by the remaining SLA time
QueueTimeout_IgnoresRemaining(interval, remaining_time) == interval * 2 + 1

\* (mutant) the receive timeout without its slack: one interval
QueueTimeout_OneInterval(interval, remaining_time) == Min(interval, remaining_time)

\* queue_timeout = min(interval * 2 + 1, remaining_time)
QueueTimeout(interval, remaining_time) == Min(interval * 2 + 1, remaining_time)

\* sampling_thread.join(timeout=2.0)
JoinTimeout == 2

\* (mutant) success decided by the count alone
Success_IgnoresElapsed(n, total_measurements, elapsed, sla_timeout) ==
    n >= total_measurements

\* success = len(measurements) >= total_measurements and elapsed_time <= sla_timeout
Success(n, total_measurements, elapsed, sla_timeout) ==
    n >= total_measurements /\ elapsed <= sla_timeout

\* (mutant) the SLA flag is not consulted
Reason_IgnoresFlag(success, sla_flag) ==
    IF success THEN "Completed successfully" ELSE "Collection incomplete"

\* the reason string, by its three forms
Reason(success, sla_flag) ==
    IF success THEN "Completed successfully"
    ELSE IF sla_flag THEN "SLA exceeded"
    ELSE "Collection incomplete"

CollectionResult(ms, success, elapsed, expected_count, reason) ==
    [success |-> success, reason |-> reason, elapsed_time |-> elapsed,
     expected_count |-> expected_count, actual_count |-> Len(ms)]

\* the call: clear both events, drain the queue, start the thread
CollectStart ==
    /\ cpc = "idle"
    /\ \E t \in AmmeterArgs : \E s \in DevicesAt(t) :
          ammeter_type' = t /\ source' = s
    /\ measurements' = << >>
    /\ stop_event' = FALSE
    /\ sla_exceeded' = FALSE
    /\ measurement_queue' = << >>
    /\ test_start_time' = now
    /\ ppc' = "init"
    /\ ci' = 0
    /\ cpc' = "top"
    /\ calls' = 1
    /\ UNCHANGED << now, jitter, oldWorkerVars, resolverVars, constructVars, clientVars, managerVars,
                    sampling_config, get_deadline,
                    elapsed_time, join_deadline, result, absolute_start, pi,
                    pending, acq_end, wait_deadline, stop_time, produced >>

\* (mutant) a consumer that does not look at the remaining time
Expired_Never(remaining_time) == FALSE

\* if remaining_time <= 0
Expired(remaining_time) == remaining_time <= 0

\* the top of the consumer loop, up to the call of Queue.get
ConsumerTop ==
    /\ cpc = "top"
    /\ LET elapsed == now - test_start_time
           remaining_time == sampling_config.total_duration_seconds - elapsed
       IN IF Expired(remaining_time)
          THEN /\ stop_event' = TRUE
               /\ sla_exceeded' = TRUE
               /\ cpc' = "final"
               /\ UNCHANGED get_deadline
          ELSE /\ get_deadline' = now + QueueTimeout(sampling_config.interval, remaining_time)
               /\ cpc' = "get"
               /\ UNCHANGED << stop_event, sla_exceeded >>
    /\ UNCHANGED << now, jitter, laterVars, configVars, measurement_queue, ammeter_type,
                    test_start_time, ci, measurements, elapsed_time,
                    join_deadline, result, workerVars, stop_time, produced >>

\* Queue.get returns an item: an item that is there is returned, however late
ConsumerGetItem ==
    /\ cpc = "get"
    /\ measurement_queue # << >>
    /\ LET r == Head(measurement_queue)
       IN measurements' = Append(measurements,
              [timestamp |-> r.timestamp, relative_time |-> r.relative_time,
               value |-> r.value, measurement_index |-> ci, index |-> r.index])
    /\ measurement_queue' = Tail(measurement_queue)
    /\ ci' = ci + 1
    /\ cpc' = IF ci + 1 < sampling_config.measurements_count THEN "top" ELSE "final"
    /\ UNCHANGED << now, jitter, laterVars, configVars, stop_event, sla_exceeded,
                    ammeter_type, test_start_time, get_deadline, elapsed_time,
                    join_deadline, result, workerVars, stop_time, produced >>

\* Queue.get raises queue.Empty
ConsumerGetEmpty ==
    /\ cpc = "get"
    /\ measurement_queue = << >>
    /\ now >= get_deadline
    /\ LET elapsed == now - test_start_time
       IN IF elapsed >= sampling_config.total_duration_seconds
          THEN stop_event' = TRUE /\ sla_exceeded' = TRUE
          ELSE UNCHANGED << stop_event, sla_exceeded >>
    /\ cpc' = "final"
    /\ UNCHANGED << now, jitter, laterVars, configVars, measurement_queue, ammeter_type,
                    test_start_time, ci, get_deadline, measurements,
                    elapsed_time, join_deadline, result, workerVars, stop_time,
                    produced >>

\* the final timing, up to the call of Thread.join
ConsumerFinal ==
    /\ cpc = "final"
    /\ elapsed_time' = now - test_start_time
    /\ join_deadline' = now + JoinTimeout
    /\ cpc' = "join"
    /\ UNCHANGED << now, jitter, laterVars, configVars, measurement_queue, stop_event,
                    sla_exceeded, ammeter_type, test_start_time, ci,
                    get_deadline, measurements, result, workerVars, stop_time,
                    produced >>

\* Thread.join returns (the thread ended, or the timeout expired); the result
ConsumerJoin ==
    /\ cpc = "join"
    /\ ppc = "done" \/ now >= join_deadline
    /\ LET total_measurements == sampling_config.measurements_count
           success == Success(Len(measurements), total_measurements, elapsed_time,
                              sampling_config.total_duration_seconds)
       IN result' = CollectionResult(measurements, success, elapsed_time,
                                     total_measurements, Reason(success, sla_exceeded))
    /\ cpc' = "returned"
    /\ UNCHANGED << now, jitter, laterVars, configVars, measurement_queue, stop_event,
                    sla_exceeded, ammeter_type, test_start_time, ci,
                    get_deadline, measurements, elapsed_time, join_deadline,
                    workerVars, stop_time, produced >>

\* ------------------------------------------------------ _sampling_worker
\* the thread starts running: absolute_start = time.perf_counter()
WorkerStart ==
    /\ ppc = "init"
    /\ absolute_start' = now
    /\ pi' = 0
    /\ ppc' = "top"
    /\ UNCHANGED << now, jitter, laterVars, configVars, measurement_queue, stop_event,
                    sla_exceeded, consumerVars, pending, acq_end, wait_deadline,
                    stop_time, produced >>

\* (mutant) relative sleeps, one interval after each sample
SleepDuration_Relative(start, i, interval, current_time) == interval

\* sleep_duration = next_expected_time - current_time
SleepDuration(start, i, interval, current_time) ==
    (start + (i + 1) * interval) - current_time

\* (mutant) a producer that does not look at the time
SlaPassed_Never(elapsed, sla_timeout) == FALSE

\* if elapsed > sla_timeout
SlaPassed(elapsed, sla_timeout) == elapsed > sla_timeout

\* the top of the producer loop: the stop and SLA checks, then the acquisition
\* is started
WorkerTop ==
    /\ ppc = "top"
    /\ IF stop_event
       THEN /\ ppc' = "done"
            /\ UNCHANGED << sla_exceeded, pending, acq_end >>
       ELSE IF SlaPassed(now - absolute_start, sampling_config.total_duration_seconds)
       THEN /\ sla_exceeded' = TRUE
            /\ ppc' = "done"
            /\ UNCHANGED << pending, acq_end >>
       ELSE /\ \E m \in GetMeasurement(ammeter_type, source) :
                 /\ pending' = [timestamp |-> now,
                                relative_time |-> now - absolute_start,
                                value |-> m[1], index |-> pi]
                 /\ acq_end' = now + m[2]
            /\ ppc' = "acquire"
            /\ UNCHANGED sla_exceeded
    /\ UNCHANGED << now, jitter, laterVars, configVars, measurement_queue, stop_event,
                    consumerVars, absolute_start, pi, wait_deadline, stop_time,
                    produced >>

\* (mutant) a failed acquisition is not handed over
Put_SkipsNull(q, item) == IF item.value = "None" THEN q ELSE Append(q, item)

\* self.measurement_queue.put(item)
Put(q, item) == Append(q, item)

\* _get_measurement returns: the sample is put, the sleep is computed; when it
\* raises instead, the exception ends the thread
WorkerPut ==
    /\ ppc = "acquire"
    /\ now >= acq_end
    /\ IF pending.value = "UnicodeDecodeError"
       THEN /\ ppc' = "done"
            /\ UNCHANGED << measurement_queue, produced, pi, wait_deadline >>
       ELSE /\ measurement_queue' = Put(measurement_queue, pending)
            /\ produced' = Append(produced, [sample |-> pending, put_time |-> now,
                                             after_stop |-> stop_time # -1,
                                             call |-> calls])
            /\ LET sleep_duration ==
                       SleepDuration(absolute_start, pi, sampling_config.interval, now)
               IN IF sleep_duration > 0 /\ pi < sampling_config.measurements_count - 1
                  THEN /\ wait_deadline' = now + sleep_duration
                       /\ ppc' = "wait"
                       /\ UNCHANGED pi
                  ELSE /\ pi' = pi + 1
                       /\ ppc' = IF pi + 1 < sampling_config.measurements_count
                                 THEN "top" ELSE "done"
                       /\ UNCHANGED wait_deadline
    /\ UNCHANGED << now, jitter, laterVars, configVars, stop_event, sla_exceeded,
                    consumerVars, absolute_start, pending, acq_end, stop_time >>

\* (mutant) a sleep the stop event does not interrupt
WaitReturns_TimeoutOnly(flag, deadline) == now >= deadline

\* threading.Event.wait(timeout): returns when the flag is set or at the timeout
WaitReturns(flag, deadline) == flag \/ now >= deadline

\* self._stop_event.wait(timeout=sleep_duration) returns
WorkerWake ==
    /\ ppc = "wait"
    /\ WaitReturns(stop_event, wait_deadline)
    /\ pi' = pi + 1
    /\ ppc' = "top"
    /\ UNCHANGED << now, jitter, laterVars, configVars, measurement_queue, stop_event,
                    sla_exceeded, consumerVars, absolute_start, pending, acq_end,
                    wait_deadline, stop_time, produced >>

\* ------------------------------------------------------ DataCollector.stop
\* called by another thread while a collection is running
Stop ==
    /\ cpc \in {"top", "get", "final", "join"}
    /\ stop_time = -1
    /\ stop_event' = TRUE
    /\ stop_time' = now
    /\ UNCHANGED << now, jitter, laterVars, configVars, measurement_queue, sla_exceeded,
                    consumerVars, workerVars, produced >>

\* ------------------------------------------------------------------ time
ConsumerReady ==
    \/ cpc \in {"top", "final"}
    \/ cpc = "get" /\ (measurement_queue # << >> \/ now >= get_deadline)
    \/ cpc = "join" /\ (ppc = "done" \/ now >= join_deadline)

WorkerReady ==
    \/ ppc \in {"init", "top"}
    \/ ppc = "acquire" /\ now >= acq_end
    \/ ppc = "wait" /\ WaitReturns(stop_event, wait_deadline)

\* --------------------------------------- a second call on the same object
\* collect_measurements is called again after it returned: the events are
\* cleared, the queue is drained and a new thread is started; the thread of
\* the first call, if join() timed out on it, is still running on the same
\* queue and the same events
CollectAgain ==
    /\ cpc = "returned"
    /\ calls = 1
    /\ calls' = 2
    /\ measurements' = << >>
    /\ stop_event' = FALSE
    /\ sla_exceeded' = FALSE
    /\ measurement_queue' = << >>
    /\ test_start_time' = now
    /\ opc' = IF ppc = "done" THEN "none" ELSE ppc
    /\ oabsolute_start' = absolute_start
    /\ oi' = pi
    /\ opending' = pending
    /\ oacq_end' = acq_end
    /\ owait_deadline' = wait_deadline
    /\ ppc' = "init"
    /\ ci' = 0
    /\ cpc' = "top"
    /\ stop_time' = -1
    /\ produced' = << >>
    /\ UNCHANGED << now, jitter, resolverVars, constructVars, clientVars, managerVars, configVars,
                    ammeter_type, get_deadline, elapsed_time, join_deadline,
                    result, absolute_start, pi, pending, acq_end,
                    wait_deadline >>

\* the first call's thread at the top of its loop
OldWorkerTop ==
    /\ opc = "top"
    /\ IF stop_event
       THEN /\ opc' = "done"
            /\ UNCHANGED << sla_exceeded, opending, oacq_end >>
       ELSE IF SlaPassed(now - oabsolute_start, sampling_config.total_duration_seconds)
       THEN /\ sla_exceeded' = TRUE
            /\ opc' = "done"
            /\ UNCHANGED << opending, oacq_end >>
       ELSE /\ \E m \in GetMeasurement(ammeter_type, source) :
                 /\ opending' = [timestamp |-> now,
                                 relative_time |-> now - oabsolute_start,
                                 value |-> m[1], index |-> oi]
                 /\ oacq_end' = now + m[2]
            /\ opc' = "acquire"
            /\ UNCHANGED sla_exceeded
    /\ UNCHANGED << now, jitter, calls, resolverVars, constructVars, clientVars, managerVars, configVars, measurement_queue,
                    stop_event, consumerVars, workerVars, oabsolute_start, oi,
                    owait_deadline, stop_time, produced >>

\* the first call's thread puts its sample into the queue of the second call
OldWorkerPut ==
    /\ opc = "acquire"
    /\ now >= oacq_end
    /\ IF opending.value = "UnicodeDecodeError"
       THEN /\ opc' = "done"
            /\ UNCHANGED << measurement_queue, produced, oi, owait_deadline >>
       ELSE /\ measurement_queue' = Put(measurement_queue, opending)
            /\ produced' = Append(produced, [sample |-> opending, put_time |-> now,
                                             after_stop |-> stop_time # -1,
                                             call |-> calls - 1])
            /\ LET sleep_duration ==
                       SleepDuration(oabsolute_start, oi, sampling_config.interval, now)
               IN IF sleep_duration > 0 /\ oi < sampling_config.measurements_count - 1
                  THEN /\ owait_deadline' = now + sleep_duration
                       /\ opc' = "wait"
                       /\ UNCHANGED oi
                  ELSE /\ oi' = oi + 1
                       /\ opc' = IF oi + 1 < sampling_config.measurements_count
                                 THEN "top" ELSE "done"
                       /\ UNCHANGED owait_deadline
    /\ UNCHANGED << now, jitter, calls, resolverVars, constructVars, clientVars, managerVars, configVars, stop_event, sla_exceeded,
                    consumerVars, workerVars, oabsolute_start, opending,
                    oacq_end, stop_time >>

\* The thread of the first call is past its start when the call returns and,
\* having outlived a receive timeout or the SLA, is behind its schedule: it
\* is never found in, and never enters, its Event.wait (OldWorkerPositions).
OldWorkerReady ==
    \/ opc = "top"
    \/ opc = "acquire" /\ now >= oacq_end

OldWorkerPositions == opc \in {"none", "top", "acquire", "done"}

Running ==
    \/ cpc \in {"top", "get", "final", "join"}
    \/ ppc \in {"init", "top", "acquire", "wait"}
    \/ opc \in {"top", "acquire"}

\* one second passes: every thread is blocked, or a runnable thread is delayed
Tick ==
    /\ Running
    /\ IF ConsumerReady \/ WorkerReady \/ OldWorkerReady
       THEN jitter < MaxJitter /\ jitter' = jitter + 1
       ELSE jitter' = jitter
    /\ now' = now + 1
    /\ UNCHANGED << laterVars, configVars, measurement_queue, stop_event,
                    sla_exceeded, consumerVars, workerVars, stop_time, produced >>

Next ==
    \/ CollectStart
    \/ ConsumerTop
    \/ ConsumerGetItem
    \/ ConsumerGetEmpty
    \/ ConsumerFinal
    \/ ConsumerJoin
    \/ WorkerStart
    \/ WorkerTop
    \/ WorkerPut
    \/ WorkerWake
    \/ Stop
    \/ Tick

Spec == Init /\ [][Next]_vars

\* the threads are scheduled and the clock advances
LiveSpec == Spec /\ WF_vars(Next)

\* two successive calls of collect_measurements on one DataCollector
ReuseNext ==
    \/ Next
    \/ CollectAgain
    \/ OldWorkerTop
    \/ OldWorkerPut

ReuseSpec == Init /\ [][ReuseNext]_vars

\* ------------------------------------------------ resolve_sampling_config
\* the sampling sections tried: each key absent or one of these values
GivenCounts ==
    {None, PyInt(0), PyInt(1), PyInt(3), PyInt(10), PyInt(100), PyTrue,
     PyFloat(2, 1), Str}
GivenFrequencies ==
    {None, PyInt(0), PyInt(1), PyInt(10), PyFloat(1, 2), PyFloat(1, 10),
     PyFloat(3, 10), PyTrue, NaN, Inf, Str}
GivenDurations ==
    {None, PyInt(0), PyInt(1), PyInt(5), PyInt(100), PyFloat(5, 2),
     PyFloat(2001, 200), PyFloat(1, 1000), NaN, Inf, Str}

GivenPlans ==
    [measurements_count : GivenCounts, sampling_frequency_hz : GivenFrequencies,
     total_duration_seconds : GivenDurations]

\* tolerance = 1e-3
tolerance == PyFloat(1, 1000)

Present(v) == v.kind # "None"

\* sum(value is not None for value in (...))
ProvidedFieldsCount(plan) ==
    Cardinality({k \in {"measurements_count", "sampling_frequency_hz",
                        "total_duration_seconds"} : Present(plan[k])})

\* (mutant) only a section with no parameter at all is refused
Underspecified_OnlyEmpty(provided_fields_count) == provided_fields_count < 1

\* if provided_fields_count < 2: raise
Underspecified(provided_fields_count) == provided_fields_count < 2

\* (mutant) the rounding error is not looked at
NonIntegral_Never(expected_count, rounded_count) == FALSE

\* abs(expected_count - rounded_count) > tolerance
NonIntegral(expected_count, rounded_count) ==
    FGt(AbsDiff(expected_count, rounded_count), tolerance)

\* (mutant) duration / count
DeriveFrequency_Inverse(measurements_count, total_duration_seconds) ==
    FDiv(total_duration_seconds, measurements_count)

\* sampling_frequency_hz = measurements_count / total_duration_seconds
DeriveFrequency(measurements_count, total_duration_seconds) ==
    FDiv(measurements_count, total_duration_seconds)

\* total_duration_seconds = measurements_count / sampling_frequency_hz
DeriveDuration(measurements_count, sampling_frequency_hz) ==
    FDiv(measurements_count, sampling_frequency_hz)

\* resolve_sampling_config on the sampling section `plan`: the exception it
\* raises ("None" if it returns) and the section it leaves
ResolveSamplingConfig(plan) ==
    LET measurements_count == plan.measurements_count
        provided_fields_count == ProvidedFieldsCount(plan)
        sampling_frequency_hz == ToFloat(plan.sampling_frequency_hz)
        total_duration_seconds == ToFloat(plan.total_duration_seconds)
        Raise(e) == [raised |-> e, sampling |-> plan]
        Write(c, f, d) ==
            [raised |-> "None",
             sampling |-> [measurements_count |-> ToInt(c),
                           sampling_frequency_hz |-> ToFloat(f),
                           total_duration_seconds |-> ToFloat(d)]]
    IN IF Underspecified(provided_fields_count) THEN Raise("ValueError")
       ELSE IF /\ Present(measurements_count)
               /\ (~IsInt(measurements_count) \/ LeqZero(measurements_count))
       THEN Raise("ValueError")
       ELSE IF /\ Present(plan.sampling_frequency_hz)
               /\ \/ ~IsNumber(plan.sampling_frequency_hz)
                  \/ LeqZero(plan.sampling_frequency_hz)
       THEN Raise("ValueError")
       ELSE IF /\ Present(plan.total_duration_seconds)
               /\ \/ ~IsNumber(plan.total_duration_seconds)
                  \/ LeqZero(plan.total_duration_seconds)
       THEN Raise("ValueError")
       ELSE IF provided_fields_count = 2
       THEN IF ~Present(measurements_count)
            THEN LET expected_count == FMul(total_duration_seconds, sampling_frequency_hz)
                 IN IF expected_count.kind = "nan" THEN Raise("ValueError")
                    ELSE IF expected_count.kind = "inf" THEN Raise("OverflowError")
                    ELSE LET rounded_count == PyInt(Round(expected_count))
                         IN IF NonIntegral(expected_count, rounded_count)
                            THEN Raise("ValueError")
                            ELSE Write(rounded_count, sampling_frequency_hz,
                                       total_duration_seconds)
            ELSE IF ~Present(plan.sampling_frequency_hz)
            THEN Write(measurements_count,
                       DeriveFrequency(measurements_count, total_duration_seconds),
                       total_duration_seconds)
            ELSE Write(measurements_count, sampling_frequency_hz,
                       DeriveDuration(measurements_count, sampling_frequency_hz))
       ELSE LET expected_count == FMul(total_duration_seconds, sampling_frequency_hz)
            IN IF FGt(AbsDiff(expected_count, measurements_count), tolerance)
               THEN Raise("ValueError")
               ELSE Write(measurements_count, sampling_frequency_hz,
                          total_duration_seconds)

\* load_config's call of resolve_sampling_config(config), or a later call on
\* the same config
Resolve ==
    /\ rpc \in {"input", "resolved", "failed"}
    /\ resolve_calls < 2
    /\ resolve_calls' = resolve_calls + 1
    /\ LET r == ResolveSamplingConfig(sampling)
       IN /\ sampling' = r.sampling
          /\ raised' = r.raised
          /\ rpc' = IF r.raised = "None" THEN "resolved" ELSE "failed"
    /\ UNCHANGED << given, constructVars, clientVars, managerVars, now, jitter, calls, oldWorkerVars,
                    configVars, measurement_queue, stop_event, sla_exceeded,
                    consumerVars, workerVars, stop_time, produced >>

\* ------------------------------------- SamplingConfig on configured values
\* (mutant) the feasibility check is left out
Infeasible_Never(minimum_time, total_duration_seconds) == FALSE

\* if minimum_time > total_duration_seconds: raise
Infeasible(minimum_time, total_duration_seconds) ==
    FGt(minimum_time, total_duration_seconds)

\* x - 1 of a finite number
MinusOne(x) == Num("float", x.n - x.d, x.d)

\* self.interval = 1.0 / sampling_frequency_hz
IntervalOf(sampling_frequency_hz) == FDiv(PyFloat(1, 1), sampling_frequency_hz)

\* self.minimum_time_required = (measurements_count - 1) * self.interval
MinimumTime(measurements_count, sampling_frequency_hz) ==
    FMul(MinusOne(measurements_count), IntervalOf(sampling_frequency_hz))

\* SamplingConfig._validate_parameters on configured values: the exception
\* it raises ("<=" on a str raises TypeError), "None" if none
Validate(measurements_count, total_duration_seconds, sampling_frequency_hz) ==
    IF ~IsNumber(measurements_count) THEN "TypeError"
    ELSE IF LeqZero(measurements_count) THEN "ValueError"
    ELSE IF ~IsNumber(total_duration_seconds) THEN "TypeError"
    ELSE IF LeqZero(total_duration_seconds) THEN "ValueError"
    ELSE IF ~IsNumber(sampling_frequency_hz) THEN "TypeError"
    ELSE IF LeqZero(sampling_frequency_hz) THEN "ValueError"
    ELSE IF Infeasible(MinimumTime(measurements_count, sampling_frequency_hz),
                       total_duration_seconds)
    THEN "ValueError"
    ELSE "None"

\* sampling.get(key, default)
Get(plan, key, default) == IF Present(plan[key]) THEN plan[key] ELSE default

\* DataCollector(config): SamplingConfig.from_config_dict(config), which
\* validates; the DataCollector exists only if nothing is raised
Construct ==
    /\ rpc \in {"input", "resolved", "failed"}
    /\ collector = "none"
    /\ LET measurements_count == Get(sampling, "measurements_count", PyInt(100))
           total_duration_seconds == Get(sampling, "total_duration_seconds", PyInt(60))
           sampling_frequency_hz == Get(sampling, "sampling_frequency_hz", PyInt(10))
           e == Validate(measurements_count, total_duration_seconds,
                         sampling_frequency_hz)
       IN IF e = "None"
          THEN /\ collector' = "constructed"
               /\ collector_config' =
                    [measurements_count |-> measurements_count,
                     total_duration_seconds |-> total_duration_seconds,
                     sampling_frequency_hz |-> sampling_frequency_hz,
                     interval |-> IntervalOf(sampling_frequency_hz),
                     minimum_time_required |->
                         MinimumTime(measurements_count, sampling_frequency_hz)]
          ELSE /\ collector' = e
               /\ UNCHANGED collector_config
    /\ UNCHANGED << resolverVars, clientVars, managerVars, now, jitter, calls, oldWorkerVars, configVars,
                    measurement_queue, stop_event, sla_exceeded, consumerVars,
                    workerVars, stop_time, produced >>

\* a configuration is loaded; no collection is started
ConfigInit ==
    /\ sampling \in GivenPlans
    /\ given = sampling
    /\ rpc = "input"
    /\ resolve_calls = 0
    /\ raised = "None"
    /\ collector = "none"
    /\ collector_config = NoConfig
    /\ sampling_config = [measurements_count |-> 1, total_duration_seconds |-> 1,
                          sampling_frequency_hz |-> 1000, interval |-> 1]
    /\ CollectorIdle
    /\ ClientIdle
    /\ ManagerIdle

ConfigNext ==
    \/ Resolve
    \/ Construct

ConfigSpec == ConfigInit /\ [][ConfigNext]_vars

\* ------------------------------------------- request_current_from_ammeter
\* the longest response tried, in bytes
MaxBytes == 3

\* the bytes tried: a digit, a point, a sign, a letter, and 0xFF, which no
\* UTF-8 text contains
Bytes == {"1", ".", "-", "A", "xFF"}
Digits == {"1"}

\* what a request can meet: the connection is refused, recv times out, or
\* recv returns data (no data when the peer closes the connection)
Wires ==
    { [outcome |-> o, data |-> << >>] : o \in {"refused", "timeout"} }
    \cup { [outcome |-> "data", data |-> d] :
             d \in UNION { [1..n -> Bytes] : n \in 0..MaxBytes } }

\* data.decode('utf-8') raises UnicodeDecodeError
Undecodable(data) == \E j \in 1..Len(data) : data[j] = "xFF"

\* the number of digits of text from position p on
RECURSIVE DigitRun(_, _)
DigitRun(text, p) ==
    IF p <= Len(text) /\ text[p] \in Digits THEN 1 + DigitRun(text, p + 1) ELSE 0

\* the length of the match of \d*\.?\d+ at position p, 0 if none
UnsignedAt(text, p) ==
    LET k == DigitRun(text, p)
        m == DigitRun(text, p + k + 1)
    IN IF p + k <= Len(text) /\ text[p + k] = "." /\ m > 0 THEN k + 1 + m ELSE k

\* the length of the match of [-+]?\d*\.?\d+ at position p, 0 if none
MatchAt(text, p) ==
    IF p <= Len(text) /\ text[p] \in {"-", "+"} /\ UnsignedAt(text, p + 1) > 0
    THEN 1 + UnsignedAt(text, p + 1)
    ELSE UnsignedAt(text, p)

\* re.search(r'[-+]?\d*\.?\d+', response): the matched text, << >> if no match
Search(text) ==
    IF \E p \in 1..Len(text) : MatchAt(text, p) > 0
    THEN LET p == CHOOSE q \in 1..Len(text) :
                    /\ MatchAt(text, q) > 0
                    /\ \A r \in 1..(q - 1) : MatchAt(text, r) = 0
         IN SubSeq(text, p, p + MatchAt(text, p) - 1)
    ELSE << >>

RECURSIVE Power10(_)
Power10(k) == IF k = 0 THEN 1 ELSE 10 * Power10(k - 1)

\* the digits of text as a natural number, "1" being the only digit tried
RECURSIVE DigitsValue(_)
DigitsValue(text) ==
    IF text = << >> THEN 0
    ELSE 10 * DigitsValue(SubSeq(text, 1, Len(text) - 1))
         + (IF text[Len(text)] = "1" THEN 1 ELSE 0)

\* float(match.group()) of a matched text
FloatOf(text) ==
    LET negative == text[1] = "-"
        body == IF text[1] \in {"-", "+"} THEN Tail(text) ELSE text
        digits == SelectSeq(body, LAMBDA c : c \in Digits)
        point == IF \E j \in 1..Len(body) : body[j] = "."
                 THEN CHOOSE j \in 1..Len(body) : body[j] = "."
                 ELSE Len(body)
        n == DigitsValue(digits)
    IN PyFloat(IF negative THEN -n ELSE n, Power10(Len(body) - point))

\* request_current_from_ammeter(port, command, timeout): what the caller gets
RequestCurrent(w) ==
    IF w.outcome \in {"refused", "timeout"} THEN [kind |-> "None", value |-> None]
    ELSE IF w.data = << >> THEN [kind |-> "None", value |-> None]
    ELSE IF Undecodable(w.data) THEN [kind |-> "UnicodeDecodeError", value |-> None]
    ELSE IF Search(w.data) = << >> THEN [kind |-> "None", value |-> None]
    ELSE [kind |-> "float", value |-> FloatOf(Search(w.data))]

\* one call of request_current_from_ammeter
Request ==
    /\ wire.outcome # "none"
    /\ reply.kind = "pending"
    /\ reply' = RequestCurrent(wire)
    /\ UNCHANGED << wire, managerVars, resolverVars, constructVars, now, jitter, calls,
                    oldWorkerVars, configVars, measurement_queue, stop_event,
                    sla_exceeded, consumerVars, workerVars, stop_time, produced >>

\* one request is made of a source
ClientInit ==
    /\ wire \in Wires
    /\ reply = NoReply
    /\ sampling_config = [measurements_count |-> 1, total_duration_seconds |-> 1,
                          sampling_frequency_hz |-> 1000, interval |-> 1]
    /\ CollectorIdle
    /\ ResolverIdle
    /\ ManagerIdle

ClientNext == Request

ClientSpec == ClientInit /\ [][ClientNext]_vars

\* ------------------------------------------ ResultManager and run_test
\* the number of timestamps tried
MaxStamp == 3

\* the number of run_test calls made of the framework
MaxRuns == 2

\* ISO timestamps in their order; two of them lie on the first day
Stamps == 1..MaxStamp
Types == {"greenlee", "entes"}

\* timestamp[:10], the date of a timestamp
DatePart(timestamp) == (timestamp + 1) \div 2

\* the results dictionaries tried: the metadata that save reads
Results == [test_id : TestIds, timestamp : Stamps, ammeter_type : Types]

\* (mutant) a file name made of the date only
GenerateFilename_DateOnly(id, timestamp) ==
    [date_part |-> DatePart(timestamp), test_id |-> "id1"]

\* ResultManager._generate_filename
GenerateFilename(id, timestamp) ==
    [date_part |-> DatePart(timestamp), test_id |-> id]

Filenames == { GenerateFilename(id, t) : id \in TestIds, t \in Stamps }

\* json.dump(results, f): the document written
Dump(results) ==
    [metadata |-> [test_id |-> << "string", results.test_id >>,
                   timestamp |-> << "string", results.timestamp >>,
                   ammeter_type |-> << "string", results.ammeter_type >>]]

\* json.load(f): the dictionary read
Parse(document) ==
    [test_id |-> document.metadata.test_id[2],
     timestamp |-> document.metadata.timestamp[2],
     ammeter_type |-> document.metadata.ammeter_type[2]]

\* where the dict holds the key, 0 when it does not
Position(idx, id) ==
    IF \E j \in 1..Len(idx) : idx[j].test_id = id
    THEN CHOOSE j \in 1..Len(idx) : idx[j].test_id = id
    ELSE 0

\* self._index[test_id] = entry: a new key is added last, a known key keeps
\* its place
SetItem(idx, entry) ==
    IF Position(idx, entry.test_id) > 0
    THEN [idx EXCEPT ![Position(idx, entry.test_id)] = entry]
    ELSE Append(idx, entry)

\* (mutant) a delete that leaves the index as it is
DelItem_Keeps(idx, id) == idx

\* del self._index[test_id]
DelItem(idx, id) == SelectSeq(idx, LAMBDA e : e.test_id # id)

\* ResultManager.save: the index entry written
Entry(results) ==
    [test_id |-> results.test_id,
     filename |-> GenerateFilename(results.test_id, results.timestamp),
     timestamp |-> results.timestamp,
     ammeter_type |-> results.ammeter_type]

\* ResultManager.load
Load(idx, fs, id) ==
    IF Position(idx, id) = 0 THEN None
    ELSE LET filename == idx[Position(idx, id)].filename
         IN IF fs[filename] = NoFile THEN None ELSE Parse(fs[filename][1])

\* sorted(results, key=timestamp, reverse=True): the sort is stable
RECURSIVE SortedNewestFirst(_)
SortedNewestFirst(entries) ==
    IF entries = << >> THEN << >>
    ELSE LET first == CHOOSE j \in 1..Len(entries) :
                          /\ \A k \in 1..Len(entries) :
                                 entries[k].timestamp <= entries[j].timestamp
                          /\ \A k \in 1..(j - 1) :
                                 entries[k].timestamp < entries[j].timestamp
         IN << entries[first] >>
            \o SortedNewestFirst(SubSeq(entries, 1, first - 1)
                                 \o SubSeq(entries, first + 1, Len(entries)))

\* ResultManager.list_all
ListAll(idx) == SortedNewestFirst(idx)

\* ResultManager.find_by_ammeter
FindByAmmeter(idx, type) == SelectSeq(idx, LAMBDA e : e.ammeter_type = type)

\* ResultManager.get_latest
GetLatest(idx, fs, type) ==
    LET results == IF type # "None" THEN FindByAmmeter(idx, type) ELSE ListAll(idx)
    IN IF results = << >> THEN None ELSE Load(idx, fs, results[1].test_id)

\* ResultManager.save(results)
Save(results) ==
    LET entry == Entry(results)
    IN /\ files' = [files EXCEPT ![entry.filename] = << Dump(results) >>]
       /\ index' = SetItem(index, entry)
       /\ last_saved' = [last_saved EXCEPT ![results.test_id] = results]

\* a call of ResultManager.save by another user of the archive
SaveCall ==
    /\ test_id # "none"
    /\ \E results \in Results :
         /\ Save(results)
         /\ returned' = [op |-> "save", arg |-> results.test_id, value |-> TRUE]
    /\ UNCHANGED << test_id, runs, clientVars, resolverVars, constructVars, now,
                    jitter, calls, oldWorkerVars, configVars, measurement_queue,
                    stop_event, sla_exceeded, consumerVars, workerVars, stop_time,
                    produced >>

\* AmmeterTestFramework.run_test: the collection ended, the results are built
\* with the framework's id and the present time, and saved
RunTest ==
    /\ test_id # "none"
    /\ Len(runs) < MaxRuns
    /\ \E type \in Types, timestamp \in Stamps :
         /\ \A j \in 1..Len(runs) : runs[j].timestamp <= timestamp
         /\ LET results == [test_id |-> test_id, timestamp |-> timestamp,
                            ammeter_type |-> type]
            IN /\ Save(results)
               /\ runs' = Append(runs, results)
               /\ returned' = [op |-> "run_test", arg |-> test_id, value |-> TRUE]
    /\ UNCHANGED << test_id, clientVars, resolverVars, constructVars, now, jitter,
                    calls, oldWorkerVars, configVars, measurement_queue,
                    stop_event, sla_exceeded, consumerVars, workerVars, stop_time,
                    produced >>

\* a call of ResultManager.delete
DeleteCall ==
    /\ test_id # "none"
    /\ \E id \in TestIds :
         IF Position(index, id) = 0
         THEN /\ returned' = [op |-> "delete", arg |-> id, value |-> FALSE]
              /\ UNCHANGED << index, files, last_saved >>
         ELSE /\ files' = [files EXCEPT ![index[Position(index, id)].filename] = NoFile]
              /\ index' = DelItem(index, id)
              /\ last_saved' = [last_saved EXCEPT ![id] = None]
              /\ returned' = [op |-> "delete", arg |-> id, value |-> TRUE]
    /\ UNCHANGED << test_id, runs, clientVars, resolverVars, constructVars, now,
                    jitter, calls, oldWorkerVars, configVars, measurement_queue,
                    stop_event, sla_exceeded, consumerVars, workerVars, stop_time,
                    produced >>

\* AmmeterTestFramework.__init__ on an empty save_path
ArchiveInit ==
    /\ test_id = "id1"
    /\ index = << >>
    /\ files = [filename \in Filenames |-> NoFile]
    /\ returned = NoReturn
    /\ runs = << >>
    /\ last_saved = [id \in TestIds |-> None]
    /\ sampling_config = [measurements_count |-> 1, total_duration_seconds |-> 1,
                          sampling_frequency_hz |-> 1000, interval |-> 1]
    /\ CollectorIdle
    /\ ResolverIdle
    /\ ClientIdle

ArchiveNext == SaveCall \/ RunTest \/ DeleteCall

ArchiveSpec == ArchiveInit /\ [][ArchiveNext]_vars

ArchiveTypeOK ==
    /\ test_id \in TestIds
    /\ index \in Seq([test_id : TestIds, filename : Filenames, timestamp : Stamps,
                      ammeter_type : Types])
    /\ \A j, k \in 1..Len(index) : index[j].test_id = index[k].test_id => j = k
    /\ \A filename \in Filenames :
         files[filename] # NoFile => Parse(files[filename][1]) \in Results
    /\ runs \in Seq(Results)
    /\ Len(runs) <= MaxRuns

TypeOK ==
    /\ now \in Nat
    /\ cpc \in {"idle", "top", "get", "final", "join", "returned"}
    /\ ppc \in {"none", "init", "top", "acquire", "wait", "done"}
    /\ Len(measurements) <= sampling_config.measurements_count

\* ------------------------------------------------------------------ claims
Returned == cpc = "returned"
Count == sampling_config.measurements_count
Sla == sampling_config.total_duration_seconds

\* the outcome of a CollectionResult
Outcome(r) ==
    IF r.success THEN "Success"
    ELSE IF r.reason = "SLA exceeded" THEN "SlaExceeded"
    ELSE "Incomplete"

\* C1: on every path out of collect_measurements, cancellation has been raised
\* and the producer has terminated by the time the call returns.
C1_ProducerStoppedAtReturn ==
    Returned => (stop_event /\ ppc = "done")

\* the measurement source never fails and answers well within an interval,
\* and the SLA exceeds what the schedule needs by a wide margin
C2_Pre ==
    /\ source.mode = "reliable"
    /\ Port(ammeter_type) # "None"
    /\ Slowest(source) + MaxJitter <= sampling_config.interval
    /\ Sla > (Count - 1) * sampling_config.interval + Slowest(source) + MaxJitter

\* strictly increasing sequence index, non-decreasing relative time
Ordered(ms) ==
    \A j \in 1..Len(ms) : \A k \in 1..Len(ms) :
        j < k => /\ ms[j].index < ms[k].index
                 /\ ms[j].measurement_index < ms[k].measurement_index
                 /\ ms[j].relative_time <= ms[k].relative_time

C2_Good ==
    /\ result.success
    /\ result.actual_count = result.expected_count
    /\ result.expected_count = Count
    /\ Len(measurements) = Count
    /\ Ordered(measurements)
    /\ \A j \in 1..Len(measurements) : measurements[j].value = "float"

\* a step of the running call: of the caller, of the producer thread, or of time
CallRunning == cpc \in {"top", "get", "final", "join"}
CallStep ==
    \/ ConsumerTop \/ ConsumerGetItem \/ ConsumerGetEmpty \/ ConsumerFinal
    \/ ConsumerJoin \/ WorkerStart \/ WorkerTop \/ WorkerPut \/ WorkerWake \/ Tick

C3_OutcomeRule ==
    [][ (cpc = "join" /\ cpc' = "returned") =>
          /\ result'.actual_count = Len(measurements)
          /\ result'.expected_count = Count
          /\ result'.elapsed_time = elapsed_time
          /\ Outcome(result') =
               IF Len(measurements) = Count /\ elapsed_time <= Sla THEN "Success"
               ELSE IF sla_exceeded THEN "SlaExceeded"
               ELSE "Incomplete" ]_vars

C3_Witness ==
    /\ Returned
    /\ Outcome(result) = "SlaExceeded"
    /\ result.actual_count >= 1
    /\ result.actual_count < result.expected_count

\* C4: an Incomplete outcome means the run stopped before the SLA deadline and
\* with fewer samples than the plan's count.
C4_IncompleteIsEarlyAndShort ==
    (Returned /\ Outcome(result) = "Incomplete") =>
        /\ result.elapsed_time < Sla
        /\ result.actual_count < result.expected_count

\* every acquisition takes the same time, too long for the count to be reached
\* inside the SLA, and nobody calls stop()
Delay == Slowest(source)
C5_Pre ==
    /\ Port(ammeter_type) # "None"
    /\ source.lats = {Delay}
    /\ stop_time = -1
    /\ (Count - 1) * sampling_config.interval + Delay > Sla \/ Count * Delay > Sla

Stopped == stop_time # -1
PutsAfterStop == Cardinality({ j \in 1..Len(produced) : produced[j].after_stop })
WorkerAlive == ppc \in {"init", "top", "acquire", "wait"}

C7_WaitsAbortedByCancellation ==
    [][ (stop_event /\ (ppc = "wait" \/ cpc = "get") /\ jitter' = jitter)
          => now' = now ]_vars

\* the source returns null for every acquisition, and timing permits
C8_Pre ==
    /\ source.mode = "null"
    /\ Slowest(source) + MaxJitter <= sampling_config.interval
    /\ Sla > (Count - 1) * sampling_config.interval + Slowest(source) + MaxJitter

\* C8: a source that returns null for every acquisition does not abort or
\* shorten the run: every sample enqueued and collected has value null, and
\* when timing permits an unstopped call returns Success with
\* actual_count = expected_count.
C8_NullsAreSamples ==
    source.mode = "null" =>
        /\ \A j \in 1..Len(produced) : produced[j].sample.value = "None"
        /\ \A j \in 1..Len(measurements) : measurements[j].value = "None"
        /\ (WorkerAlive /\ ~stop_event /\ ~sla_exceeded) =>
               Len(produced) \in {pi, pi + 1}
        /\ (C8_Pre /\ stop_time = -1 /\ Returned) =>
               /\ result.success
               /\ result.actual_count = Count
               /\ result.expected_count = Count

C8_Witness ==
    /\ Returned /\ C8_Pre /\ stop_time = -1
    /\ Port(ammeter_type) # "None"
    /\ Count >= 2
    /\ result.success
    /\ result.actual_count = Count
    /\ \A j \in 1..Len(measurements) : measurements[j].value = "None"

\* C9: a collection for an ammeter type that is not in the configuration
\* fails with an error: no sample is acquired or enqueued, no result returned.
C9_UnknownSourceRejected ==
    (cpc # "idle" /\ Port(ammeter_type) = "None") =>
        /\ ppc # "acquire"
        /\ produced = << >>
        /\ ~Returned

\* the samples of ms are the first Len(ms) samples put into the queue
PrefixOfProduced(ms) ==
    /\ Len(ms) <= Len(produced)
    /\ \A j \in 1..Len(ms) :
          /\ ms[j].value = produced[j].sample.value
          /\ ms[j].timestamp = produced[j].sample.timestamp
          /\ ms[j].relative_time = produced[j].sample.relative_time

\* C10: collect_measurements always terminates and returns a result, whatever
\* the source does: while it runs it can always take a step and the clock is
\* within SLA + join timeout (2 s) + scheduling delay of the start; the result
\* holds every sample received before the stop, and a failed run is reported
\* in the result as SLA exceeded or incomplete.
C10_ReturnsResult ==
    /\ CallRunning =>
          /\ ENABLED CallStep
          /\ now - test_start_time <= Sla + 2 + MaxJitter
          /\ Len(measurements) = ci
          /\ PrefixOfProduced(measurements)
    /\ Returned =>
          /\ result.actual_count = Len(measurements)
          /\ Len(measurements) = ci
          /\ PrefixOfProduced(measurements)
          /\ ci + Len(measurement_queue) = Len(produced)
          /\ result.elapsed_time <= Sla + MaxJitter
          /\ result.reason \in {"Completed successfully", "SLA exceeded",
                                "Collection incomplete"}
          /\ result.success <=> result.reason = "Completed successfully"

C10_Witness ==
    /\ Returned
    /\ WorkerAlive
    /\ ~result.success
    /\ result.actual_count >= 1

\* C11: the k-th sample appended to a call's result is the sample its producer
\* stamped with index k: measurement_index equals the producer's index.
C11_IndexMatches ==
    \A j \in 1..Len(measurements) :
        measurements[j].measurement_index = measurements[j].index

\* -------------------------------------------- claims on the configuration
\* the first call of resolve_sampling_config has returned or raised
ResolvedOnce == resolve_calls = 1
Zero == PyFloat(0, 1)
\* v is a number and v > 0
StrictlyPositive(v) == IsNumber(v) /\ FGt(v, Zero)
\* a <= b
FLeq(a, b) == a.kind # "nan" /\ b.kind # "nan" /\ ~FGt(a, b)
\* a and b are the same number
SameNumber(a, b) == IsNumber(a) /\ IsNumber(b) /\ ToFloat(a) = ToFloat(b)

\* C12: resolve_sampling_config raises ValueError whenever fewer than two of
\* the three parameters are present, and leaves the sampling section as it was.
C12_UnderspecifiedRejected ==
    (resolve_calls >= 1 /\ ProvidedFieldsCount(given) < 2) =>
        /\ rpc = "failed"
        /\ raised = "ValueError"
        /\ sampling = given

C12_Witness ==
    /\ resolve_calls >= 1
    /\ ProvidedFieldsCount(given) = 1
    /\ StrictlyPositive(given.total_duration_seconds)
    /\ rpc = "failed"
    /\ sampling = given

\* some present parameter is not strictly positive, or the count is present
\* and not an integer
InvalidParameter(plan) ==
    \/ \E k \in DOMAIN plan : Present(plan[k]) /\ ~StrictlyPositive(plan[k])
    \/ Present(plan.measurements_count) /\ ~IsInt(plan.measurements_count)

\* C13: resolve_sampling_config raises whenever a present parameter is not
\* strictly positive or a present measurements_count is not an integer, and
\* then writes nothing back.
C13_InvalidRejected ==
    (resolve_calls >= 1 /\ InvalidParameter(given)) =>
        /\ rpc = "failed"
        /\ sampling = given

\* duration * frequency equals count within the tolerance
WithinTolerance(plan) ==
    /\ \A k \in DOMAIN plan : IsNumber(plan[k])
    /\ FLeq(AbsDiff(FMul(ToFloat(plan.total_duration_seconds),
                         ToFloat(plan.sampling_frequency_hz)),
                    plan.measurements_count),
            tolerance)

\* C14: with all three parameters present, the triple is accepted only if
\* duration * frequency equals count within 1e-3, and every triple outside the
\* tolerance is rejected with ValueError.
C14_ConsistentTriplesOnly ==
    (ResolvedOnce /\ ProvidedFieldsCount(given) = 3) =>
        /\ rpc = "resolved" => WithinTolerance(given)
        /\ ~WithinTolerance(given) => (rpc = "failed" /\ raised = "ValueError")

\* only duration and frequency are given, both valid
CountMissing(plan) ==
    /\ ~Present(plan.measurements_count)
    /\ StrictlyPositive(plan.sampling_frequency_hz)
    /\ StrictlyPositive(plan.total_duration_seconds)

\* C15: with only duration and frequency present, the count is set to
\* round(duration * frequency), and the call raises whenever
\* duration * frequency differs from its rounded value by more than 1e-3.
C15_CountIsRounded ==
    (ResolvedOnce /\ CountMissing(given)) =>
        LET x == FMul(ToFloat(given.total_duration_seconds),
                      ToFloat(given.sampling_frequency_hz))
        IN IF ~Finite(x) THEN rpc = "failed" /\ sampling = given
           ELSE IF FGt(AbsDiff(x, PyInt(Round(x))), tolerance)
           THEN rpc = "failed" /\ raised = "ValueError" /\ sampling = given
           ELSE /\ rpc = "resolved"
                /\ sampling.measurements_count = PyInt(Round(x))
                /\ SameNumber(sampling.sampling_frequency_hz,
                              given.sampling_frequency_hz)
                /\ SameNumber(sampling.total_duration_seconds,
                              given.total_duration_seconds)

C15_Witness ==
    /\ ResolvedOnce /\ CountMissing(given)
    /\ rpc = "resolved"
    /\ sampling.measurements_count = PyInt(1)
    /\ given.total_duration_seconds = PyFloat(2001, 200)
    /\ given.sampling_frequency_hz = PyFloat(1, 10)

\* C16: every plan resolve_sampling_config returns has measurements_count >= 1.
C16_CountAtLeastOne ==
    rpc = "resolved" => sampling.measurements_count.n >= 1

\* C17: every plan resolve_sampling_config returns satisfies
\* |count * interval - duration| < 1e-3, interval = 1 / frequency.
C17_PlanConsistent ==
    rpc = "resolved" =>
        FLt(AbsDiff(FMul(sampling.measurements_count,
                         IntervalOf(sampling.sampling_frequency_hz)),
                    sampling.total_duration_seconds),
            tolerance)

\* the count and exactly one of frequency and duration are given, all valid
OneMissing(plan) ==
    /\ Present(plan.measurements_count)
    /\ IsInt(plan.measurements_count)
    /\ StrictlyPositive(plan.measurements_count)
    /\ ProvidedFieldsCount(plan) = 2
    /\ \A k \in DOMAIN plan : Present(plan[k]) => StrictlyPositive(plan[k])

\* C18: with the count and exactly one of frequency and duration present, the
\* missing one is derived as count / duration or count / frequency, and all
\* three are written back with the two given values unchanged.
C18_MissingDerived ==
    (ResolvedOnce /\ OneMissing(given)) =>
        /\ rpc = "resolved"
        /\ \A k \in DOMAIN sampling : Present(sampling[k])
        /\ sampling.measurements_count = ToInt(given.measurements_count)
        /\ IF Present(given.total_duration_seconds)
           THEN /\ SameNumber(sampling.total_duration_seconds,
                              given.total_duration_seconds)
                /\ sampling.sampling_frequency_hz =
                       FDiv(given.measurements_count,
                            ToFloat(given.total_duration_seconds))
           ELSE /\ SameNumber(sampling.sampling_frequency_hz,
                              given.sampling_frequency_hz)
                /\ sampling.total_duration_seconds =
                       FDiv(given.measurements_count,
                            ToFloat(given.sampling_frequency_hz))

C18_Witness ==
    /\ ResolvedOnce /\ OneMissing(given)
    /\ given.measurements_count = PyInt(3)
    /\ given.total_duration_seconds = PyFloat(5, 2)
    /\ sampling.sampling_frequency_hz = PyFloat(6, 5)

\* the plan DataCollector(config) reads from the sampling section
PlanOf(plan) ==
    [measurements_count |-> Get(plan, "measurements_count", PyInt(100)),
     total_duration_seconds |-> Get(plan, "total_duration_seconds", PyInt(60)),
     sampling_frequency_hz |-> Get(plan, "sampling_frequency_hz", PyInt(10))]

\* (count - 1) * interval exceeds the duration
InfeasiblePlan(plan) ==
    /\ \A k \in DOMAIN plan : StrictlyPositive(plan[k])
    /\ FGt(FMul(MinusOne(plan.measurements_count),
                FDiv(PyFloat(1, 1), plan.sampling_frequency_hz)),
           plan.total_duration_seconds)

\* C19: constructing a DataCollector on a plan whose minimum time
\* (count - 1) * interval exceeds its duration raises ValueError, with no
\* collection started; a DataCollector that exists has a feasible plan.
C19_InfeasibleRejected ==
    [][ (collector = "none" /\ collector' # "none") =>
          /\ InfeasiblePlan(PlanOf(sampling)) => collector' = "ValueError"
          /\ collector' = "constructed" =>
                /\ ~InfeasiblePlan(PlanOf(sampling))
                /\ ~FGt(collector_config'.minimum_time_required,
                        collector_config'.total_duration_seconds)
          /\ cpc' = "idle" /\ ppc' = "none" ]_vars

C19_Witness ==
    /\ collector = "ValueError"
    /\ resolve_calls = 0
    /\ InfeasiblePlan(PlanOf(sampling))
    /\ ProvidedFieldsCount(sampling) = 3

\* C20: resolve_sampling_config applied again to the section it has filled in
\* succeeds and leaves count, frequency and duration as they are.
C20_ResolveIdempotent ==
    [][ (rpc = "resolved" /\ resolve_calls' = resolve_calls + 1) =>
          (rpc' = "resolved" /\ sampling' = sampling) ]_vars

\* ----------------------------------------------- claims on one acquisition
\* the source failed: refused, timed out, sent nothing, or sent what cannot
\* be decoded or holds no number
SourceFailed(w) ==
    \/ w.outcome \in {"refused", "timeout"}
    \/ w.data = << >>
    \/ Undecodable(w.data)
    \/ \A j \in 1..Len(w.data) : w.data[j] \notin Digits

\* C21: request_current_from_ammeter never raises, and returns null for every
\* failure of the source.
C21_FailureGivesNull ==
    reply.kind # "pending" =>
        /\ reply.kind \in {"None", "float"}
        /\ SourceFailed(wire) => reply.kind = "None"

\* ------------------------------------------------- claims on the archive
\* C22: two calls of run_test on one framework are archived under distinct
\* test ids: the second run leaves the first run's result retrievable by load.
C22_RunsArchivedApart ==
    [][(runs' # runs /\ Len(runs') = 2) =>
          /\ runs'[1].test_id # runs'[2].test_id
          /\ Load(index, files, runs[1].test_id) = runs[1]
                => Load(index', files', runs[1].test_id) = runs[1]]_vars

\* the index entries get_latest(type) chooses among
Matching(type) ==
    { j \in 1..Len(index) : type = "None" \/ index[j].ammeter_type = type }

\* C23: get_latest returns the stored result with the greatest timestamp among
\* all results, or among those of the given ammeter type, and None only when
\* no matching result is stored.
C23_LatestIsGreatest ==
    \A type \in Types \cup {"None"} :
        LET latest == GetLatest(index, files, type)
        IN IF Matching(type) = {}
           THEN latest = None
           ELSE /\ latest # None
                /\ \A j \in Matching(type) : index[j].timestamp <= latest.timestamp

\* C24: load returns the results last saved under the id, whatever was saved
\* or deleted under other ids since.
C24_LoadReturnsSaved ==
    \A id \in TestIds :
        last_saved[id] # None => Load(index, files, id) = last_saved[id]

\* a result saved under id1 is loaded back after one of id2, saved on the
\* same day, has been deleted
C24_Witness ==
    /\ returned = [op |-> "delete", arg |-> "id2", value |-> TRUE]
    /\ last_saved["id1"] # None
    /\ Load(index, files, "id1") = last_saved["id1"]
    /\ files[GenerateFilename("id2", last_saved["id1"].timestamp)] = NoFile

\* C25: delete of an indexed id returns True and removes the entry, so that
\* load returns None and list_all omits the id; delete of any other id returns
\* False and changes neither the index nor a file.
C25_DeleteFrame ==
    [][returned'.op = "delete" =>
          LET id == returned'.arg
          IN IF Position(index, id) > 0
             THEN /\ returned'.value
                  /\ Position(index', id) = 0
                  /\ Load(index', files', id) = None
                  /\ \A j \in 1..Len(ListAll(index')) : ListAll(index')[j].test_id # id
             ELSE /\ ~returned'.value
                  /\ index' = index
                  /\ files' = files]_vars

\* an indexed result has been deleted while another one stays
C25_Witness ==
    /\ returned.op = "delete"
    /\ returned.value
    /\ Position(index, returned.arg) = 0
    /\ Len(index) = 1

\* ------------------------------------------- claims on the two loops' steps
\* a step of the producer from the top of its loop
WorkerTopStep == ppc = "top" /\ ppc' # "top"

Started ==
    [j \in 1..Len(produced) |->
        [start |-> produced[j].sample.timestamp, end |-> produced[j].put_time,
         index |-> produced[j].sample.index]]
    \o (IF ppc = "acquire" /\ pending.value # "UnicodeDecodeError"
        THEN << [start |-> pending.timestamp, end |-> now, index |-> pending.index] >>
        ELSE << >>)

Max(a, b) == IF a > b THEN a ELSE b

\* expected_time = absolute_start + i * interval
Deadline(i) == absolute_start + i * sampling_config.interval

\* how long after its deadline an acquisition started
Lateness(a) == a.start - Deadline(a.index)

\* C27 (as written): the lateness of a sample is bounded by the latency of the
\* acquisition before it (and the scheduling delay), and does not accumulate.
C27_LatenessBoundedByLatency ==
    \A j \in 1..(Len(Started) - 1) :
        Lateness(Started[j + 1]) <= (Started[j].end - Started[j].start) + MaxJitter

\* C27 (amended): sample i+1 is started at its deadline when sample i finished
\* before it and at once when it finished later, up to the scheduling delay,
\* and never before the deadline; its lateness is at most what the lateness
\* and the latency of sample i exceed the interval by.
C27_AbsoluteDeadlines ==
    \A j \in 1..(Len(Started) - 1) :
        LET this == Started[j]
            next == Started[j + 1]
        IN /\ next.index = this.index + 1
           /\ next.start >= Deadline(next.index)
           /\ next.start >= this.end
           /\ next.start <= Max(Deadline(next.index), this.end) + MaxJitter
           /\ Lateness(next) <=
                  Max(0, Lateness(this) + (this.end - this.start)
                           - sampling_config.interval) + MaxJitter

\* a sample was started on its deadline after a wait, and a later one at once
\* after a sample that finished beyond the deadline
C27_Witness ==
    /\ Len(Started) >= 3
    /\ Started[1].end < Deadline(1)
    /\ Started[2].start = Deadline(1)
    /\ Started[2].end > Deadline(2)
    /\ Started[3].start = Started[2].end

\* C28: a consumer that finds no SLA time remaining at the top of an iteration
\* raises the cancellation and the SLA-exceeded flags and stops receiving; the
\* consumer never raises the SLA-exceeded flag without the cancellation flag.
C28_ConsumerRaisesBoth ==
    [][/\ (cpc = "top" /\ cpc' # "top" /\ Sla - (now - test_start_time) <= 0) =>
              /\ stop_event'
              /\ sla_exceeded'
              /\ cpc' = "final"
              /\ measurements' = measurements
              /\ measurement_queue' = measurement_queue
       /\ (cpc' # cpc /\ sla_exceeded' /\ ~sla_exceeded) => stop_event']_vars

\* the consumer found the SLA spent at the top of its first iteration
C28_Witness ==
    /\ cpc = "final"
    /\ ci = 0
    /\ get_deadline = 0
    /\ stop_event
    /\ sla_exceeded
    /\ now - test_start_time >= Sla

\* C29: the consumer waits for a sample no longer than min(2 * interval + 1,
\* remaining SLA time); a wait that times out before the SLA has elapsed ends
\* the run as Incomplete.
C29_TimeoutBeforeSlaIsIncomplete ==
    /\ cpc = "get" =>
           /\ get_deadline <= test_start_time + Sla
           /\ now <= get_deadline + MaxJitter
    /\ (Returned /\ stop_time = -1 /\ result.actual_count < Count
          /\ result.elapsed_time < Sla) => Outcome(result) = "Incomplete"

\* ------------------------------------------ claims on successive calls
\* C30: every sample handed over during a call was put by the producer that
\* the call started, and every sample in the call's result is one of them.
C30_CallsKeptApart ==
    /\ \A j \in 1..Len(produced) : produced[j].call = calls
    /\ \A j \in 1..Len(measurements) :
           \E k \in 1..Len(produced) :
               /\ produced[k].call = calls
               /\ produced[k].sample.index = measurements[j].index
               /\ produced[k].sample.timestamp = measurements[j].timestamp

\* the samples the producer started by the present call has put, in order
OwnProduced == SelectSeq(produced, LAMBDA e : e.call = calls)

\* C31: at every point of a run the result is a prefix of what the run's
\* producer has enqueued; the producer puts the indices 0, 1, 2, ... once each,
\* and collected count <= enqueued count <= the plan's count.
C31_ResultIsPrefixOfEnqueued ==
    /\ Len(measurements) <= Len(OwnProduced)
    /\ Len(produced) <= Count
    /\ \A j \in 1..Len(OwnProduced) : OwnProduced[j].sample.index = j - 1
    /\ \A j \in 1..Len(measurements) :
           /\ measurements[j].index = OwnProduced[j].sample.index
           /\ measurements[j].value = OwnProduced[j].sample.value
           /\ measurements[j].timestamp = OwnProduced[j].sample.timestamp
           /\ measurements[j].relative_time = OwnProduced[j].sample.relative_time

\* C32: constructing a DataCollector from a configuration that
\* resolve_sampling_config has accepted never raises.
C32_ResolvedIsConstructible ==
    [][(rpc = "resolved" /\ collector = "none" /\ collector' # "none") =>
          collector' = "constructed"]_vars

\* C33: after any saves and deletes every index entry names a file that exists
\* and holds the id's latest saved result, and every result file is named by
\* an index entry.
C33_IndexAndFilesAgree ==
    /\ \A j \in 1..Len(index) :
           /\ files[index[j].filename] # NoFile
           /\ Parse(files[index[j].filename][1]) = last_saved[index[j].test_id]
    /\ \A filename \in Filenames :
           files[filename] # NoFile =>
               \E j \in 1..Len(index) : index[j].filename = filename

====
